---- MODULE Spec2Model ----
(***************************************************************************)
(* Model of core/src/scene/filters.cpp (Tangram::Filter): the filter tree, *)
(* its cost estimate (filterCost), the sibling sorter (Filter::sort with   *)
(* compareSetFilter) and the matcher (Filter::eval).                       *)
(*                                                                         *)
(* Numbers (C++ double) are modelled on a grid of halves: the integer h    *)
(* stands for h/2, so 1 is 0.5 and 4 is 2.0; infinities are separate.      *)
(* Strings used as keys are sequences of character codes so that the       *)
(* lexicographic order of std::string is computed, not assumed.            *)
(***************************************************************************)
EXTENDS Integers, Sequences, FiniteSets, TLC

VARIABLES filters, sorted, pc, assertReached, oobRead,
          matchBefore, matchAfter, target, feat, result, cost

vars == <<filters, sorted, pc, assertReached, oobRead,
          matchBefore, matchAfter, target, feat, result, cost>>

(* ------------------------------ bounds --------------------------------- *)

\* longest sibling sequence handed to Filter::sort
MaxLen == 3
\* longest operand sequence of the operators handed to Filter::eval
MaxOperands == 2

SeqUpTo(S, n) == UNION {[1..k -> S] : k \in 0..n}

(* ------------------------------ doubles -------------------------------- *)

Fin(h) == [k |-> "fin", h |-> h]
PInf == [k |-> "pinf", h |-> 0]
NInf == [k |-> "ninf", h |-> 0]

isinf(d) == d.k # "fin"

\* a < b on doubles
DLt(a, b) ==
    CASE a.k = "ninf" -> b.k # "ninf"
      [] a.k = "pinf" -> FALSE
      [] OTHER -> \/ b.k = "pinf"
                  \/ b.k = "fin" /\ a.h < b.h

\* a >= b on doubles
DGe(a, b) == ~DLt(a, b)

\* the conversion double -> int of a finite difference b - a: truncation
\* toward zero (h counts halves)
TruncDiff(b, a) ==
    LET d == b.h - a.h
    IN IF d >= 0 THEN d \div 2 ELSE -((-d) \div 2)

(* ------------------------------ strings -------------------------------- *)

Zoom == <<122, 111, 111, 109>>
Geom == <<103, 101, 111, 109>>
EmptyKey == <<>>
Keys == {Zoom, Geom}

\* std::string operator> : lexicographic comparison of the character codes
RECURSIVE StrGreater(_, _)
StrGreater(a, b) ==
    IF a = <<>> THEN FALSE
    ELSE IF b = <<>> THEN TRUE
    ELSE IF Head(a) # Head(b) THEN Head(a) > Head(b)
    ELSE StrGreater(Tail(a), Tail(b))

(* ------------------------------- values -------------------------------- *)

NoneValue == [t |-> "none", num |-> Fin(0), str |-> ""]
Num(h) == [t |-> "num", num |-> Fin(h), str |-> ""]
Str(s) == [t |-> "str", num |-> Fin(0), str |-> s]

(* ------------------------------- filters ------------------------------- *)

Blank == [type |-> "none", key |-> EmptyKey, global |-> "undefined",
          exists |-> FALSE, value |-> NoneValue, values |-> <<>>,
          min |-> Fin(0), max |-> Fin(0), id |-> 0, operands |-> <<>>]

NoFilter == Blank
MkAny(ops) == [Blank EXCEPT !.type = "any", !.operands = ops]
MkAll(ops) == [Blank EXCEPT !.type = "all", !.operands = ops]
MkNone(ops) == [Blank EXCEPT !.type = "noneOf", !.operands = ops]
MkExistence(k, e) == [Blank EXCEPT !.type = "existence", !.key = k, !.exists = e]
MkEquality(k, v, g) ==
    [Blank EXCEPT !.type = "equality", !.key = k, !.value = v, !.global = g]
MkEqualitySet(k, vs, g) ==
    [Blank EXCEPT !.type = "equalitySet", !.key = k, !.values = vs, !.global = g]
MkRange(k, lo, hi, g) ==
    [Blank EXCEPT !.type = "range", !.key = k, !.min = lo, !.max = hi, !.global = g]
MkFunction(i) == [Blank EXCEPT !.type = "function", !.id = i]

OperatorTypes == {"any", "all", "noneOf"}

MkOperator(kind, ops) ==
    CASE kind = "any" -> MkAny(ops)
      [] kind = "all" -> MkAll(ops)
      [] OTHER -> MkNone(ops)

(* --------------------------- introspection ----------------------------- *)

RECURSIVE filterCost(_)

RECURSIVE SumCost(_)
SumCost(ops) ==
    IF ops = <<>> THEN 0 ELSE filterCost(Head(ops)) + SumCost(Tail(ops))

\* faulty variant: the global test of the Range case inverted
filterCostGlobalSwapped(f) ==
    CASE f.type \in OperatorTypes -> 100 + SumCost(f.operands)
      [] f.type = "existence" -> 20
      [] f.type = "equalitySet" -> IF f.global = "undefined" THEN 10 ELSE 1
      [] f.type = "equality" -> IF f.global = "undefined" THEN 10 ELSE 1
      [] f.type = "range" -> IF f.global = "undefined" THEN 1 ELSE 10
      [] f.type = "function" -> 1000
      [] OTHER -> 0

\* Filter::filterCost. The variant that holds nothing falls out of the switch
\* to assert(false); a build with NDEBUG then returns 0 (see assertInCost).
filterCost(f) ==
    CASE f.type \in OperatorTypes -> 100 + SumCost(f.operands)
      [] f.type = "existence" -> 20
      [] f.type = "equalitySet" -> IF f.global = "undefined" THEN 10 ELSE 1
      [] f.type = "equality" -> IF f.global = "undefined" THEN 10 ELSE 1
      [] f.type = "range" -> IF f.global = "undefined" THEN 10 ELSE 1
      [] f.type = "function" -> 1000
      [] OTHER -> 0

\* whether filterCost(f) runs into the assert(false) after its switch
RECURSIVE assertInCost(_)
assertInCost(f) ==
    CASE f.type \in OperatorTypes ->
            \E i \in DOMAIN f.operands : assertInCost(f.operands[i])
      [] f.type \in {"existence", "equalitySet", "equality", "range", "function"} ->
            FALSE
      [] OTHER -> TRUE

\* Filter::key
key(f) ==
    IF f.type \in {"existence", "equalitySet", "equality", "range"}
    THEN f.key ELSE EmptyKey

\* Filter::operands
operands(f) == IF f.type \in OperatorTypes THEN f.operands ELSE <<>>

\* Filter::isOperator
isOperator(f) == f.type \in OperatorTypes

(* ------------------------------- sorting ------------------------------- *)

\* what reading element [0] of an empty operand vector may make
\* compareSetFilter return: something negative, or something that is not
Garbage == {-1, 0}

\* whether compareSetFilter(a, b) reads oa[0] and ob[0] of empty vectors
readsEmpty(a, b) ==
    Len(operands(a)) = Len(operands(b)) /\ Len(operands(a)) = 0

\* compareSetFilter; g is what the out-of-bounds read yields, and what the
\* conversion to int of an infinite or NaN difference of two mins yields
compareSetFilter(a, b, g) ==
    LET oa == operands(a)
        ob == operands(b)
    IN IF Len(oa) # Len(ob) THEN (IF Len(oa) < Len(ob) THEN 1 ELSE 0)
       ELSE IF Len(oa) = 0 THEN g
       ELSE IF /\ oa[1].type = "range"
               /\ ob[1].type = "range"
               /\ key(oa[1]) = key(ob[1])
               /\ isinf(oa[1].max) /\ isinf(ob[1].max)
            THEN IF isinf(oa[1].min) \/ isinf(ob[1].min)
                 THEN g
                 ELSE TruncDiff(ob[1].min, oa[1].min)
            ELSE 0

\* faulty variant: the key tie-break ascending
comparatorKeyAscending(a, b, g) ==
    LET ma == filterCost(a)
        mb == filterCost(b)
    IN IF ~isOperator(a) /\ ~isOperator(b)
       THEN IF ma - mb # 0 THEN ma - mb < 0 ELSE StrGreater(key(b), key(a))
       ELSE IF ma # mb THEN ma < mb
       ELSE compareSetFilter(a, b, g) < 0

\* faulty variant: the cost of two simple filters compared the wrong way round
comparatorCostDescending(a, b, g) ==
    LET ma == filterCost(a)
        mb == filterCost(b)
    IN IF ~isOperator(a) /\ ~isOperator(b)
       THEN IF ma - mb # 0 THEN ma - mb > 0 ELSE StrGreater(key(a), key(b))
       ELSE IF ma # mb THEN ma < mb
       ELSE compareSetFilter(a, b, g) < 0

\* the lambda handed to std::sort in Filter::sort
comparator(a, b, g) ==
    LET ma == filterCost(a)
        mb == filterCost(b)
    IN IF ~isOperator(a) /\ ~isOperator(b)
       THEN IF ma - mb # 0 THEN ma - mb < 0 ELSE StrGreater(key(a), key(b))
       ELSE IF ma # mb THEN ma < mb
       ELSE compareSetFilter(a, b, g) < 0

\* whether one call of the lambda gets as far as compareSetFilter's reads of
\* operand [0] with both operand vectors empty
comparatorReadsEmpty(a, b) ==
    /\ isOperator(a) \/ isOperator(b)
    /\ filterCost(a) = filterCost(b)
    /\ readsEmpty(a, b)

\* whether one call of the lambda runs into filterCost's assert(false)
comparatorAsserts(a, b) == assertInCost(a) \/ assertInCost(b)

(* std::sort is the standard library's. Its two common implementations     *)
(* are modelled for the short sequences of the bounds: libstdc++ sorts up   *)
(* to 16 elements by __insertion_sort alone, libc++ sorts the first three   *)
(* by __sort3 and inserts the others one by one. A sort state holds the     *)
(* sequence and whether a call of the comparator so far has read operand    *)
(* [0] of an empty vector (oob) or run into assert(false) (asrt).           *)

Swap(s, i, j) == [s EXCEPT ![i] = s[j], ![j] = s[i]]

\* the sort state after one call comp(a, b)
Noted(st, a, b) ==
    [st EXCEPT !.oob = @ \/ comparatorReadsEmpty(a, b),
               !.asrt = @ \/ comparatorAsserts(a, b)]

\* std::move_backward(first, i, i + 1); *first = val
MoveToFront(s, i) ==
    <<s[i]>> \o SubSeq(s, 1, i - 1) \o SubSeq(s, i + 1, Len(s))

\* std::__unguarded_linear_insert: the element at i moves left while it is
\* before its left neighbour
RECURSIVE LinearInsert(_, _, _)
LinearInsert(st, i, g) ==
    IF i = 1 THEN st
    ELSE LET a == st.s[i]
             b == st.s[i - 1]
             n == Noted(st, a, b)
         IN IF comparator(a, b, g)
            THEN LinearInsert([n EXCEPT !.s = Swap(st.s, i, i - 1)], i - 1, g)
            ELSE n

\* std::__insertion_sort (libstdc++), from element i on
RECURSIVE InsertionSort(_, _, _)
InsertionSort(st, i, g) ==
    IF i > Len(st.s) THEN st
    ELSE LET a == st.s[i]
             b == st.s[1]
             n == Noted(st, a, b)
         IN IF comparator(a, b, g)
            THEN InsertionSort([n EXCEPT !.s = MoveToFront(st.s, i)], i + 1, g)
            ELSE InsertionSort(LinearInsert(n, i, g), i + 1, g)

\* one "if (c(*y, *x)) swap(*x, *y)" of libc++, on positions i - 1 and i
CondSwap(st, i, g) ==
    LET a == st.s[i]
        b == st.s[i - 1]
        n == Noted(st, a, b)
    IN IF comparator(a, b, g) THEN [n EXCEPT !.s = Swap(st.s, i, i - 1)] ELSE n

\* std::__sort3 (libc++) on positions 1, 2, 3
Sort3(st, g) ==
    LET x == st.s[1]
        y == st.s[2]
        z == st.s[3]
        n1 == Noted(st, y, x)
        n2 == Noted(n1, z, y)
    IN IF ~comparator(y, x, g)
       THEN IF ~comparator(z, y, g) THEN n2
            ELSE CondSwap([n2 EXCEPT !.s = Swap(st.s, 2, 3)], 2, g)
       ELSE IF comparator(z, y, g) THEN [n2 EXCEPT !.s = Swap(st.s, 1, 3)]
            ELSE CondSwap([n2 EXCEPT !.s = Swap(st.s, 1, 2)], 3, g)

\* the guarded insertion libc++ continues with (__sort4, __sort5,
\* __insertion_sort_3), from element i on
RECURSIVE InsertRest(_, _, _)
InsertRest(st, i, g) ==
    IF i > Len(st.s) THEN st
    ELSE InsertRest(LinearInsert(st, i, g), i + 1, g)

Implementations == {"libstdc++", "libc++"}

\* std::sort(filters.begin(), filters.end(), comparator) on the copy that
\* Filter::sort makes of its argument
StdSort(impl, s, g) ==
    LET st == [s |-> s, oob |-> FALSE, asrt |-> FALSE]
    IN IF Len(s) < 2 THEN st
       ELSE IF impl = "libstdc++" THEN InsertionSort(st, 2, g)
       ELSE IF Len(s) = 2 THEN CondSwap(st, 2, g)
       ELSE InsertRest(Sort3(st, g), 4, g)

(* ------------------------------ matching ------------------------------- *)

\* number_matcher: equal, or within machine epsilon, which on the grid of
\* halves is the same
number_matcher(num, v) == v.t = "num" /\ v.num = num

\* string_matcher
string_matcher(str, v) == v.t = "str" /\ v.str = str

\* match_equal, applied to the resolved value
match_equal(f, value) ==
    CASE value.t = "num" -> number_matcher(value.num, f.value)
      [] value.t = "str" -> string_matcher(value.str, f.value)
      [] OTHER -> FALSE

\* the loops of match_equal_set over the accepted values
RECURSIVE anyValue(_, _)
anyValue(values, value) ==
    IF values = <<>> THEN FALSE
    ELSE IF value.t = "num" /\ number_matcher(value.num, Head(values)) THEN TRUE
    ELSE IF value.t = "str" /\ string_matcher(value.str, Head(values)) THEN TRUE
    ELSE anyValue(Tail(values), value)

\* match_equal_set, applied to the resolved value
match_equal_set(f, value) ==
    CASE value.t = "num" -> anyValue(f.values, value)
      [] value.t = "str" -> anyValue(f.values, value)
      [] OTHER -> FALSE

\* faulty variant: the upper bound inclusive
match_range_closed(f, value) ==
    CASE value.t = "num" -> DGe(value.num, f.min) /\ ~DLt(f.max, value.num)
      [] OTHER -> FALSE

\* match_range, applied to the resolved value
match_range(f, value) ==
    CASE value.t = "num" -> DGe(value.num, f.min) /\ DLt(value.num, f.max)
      [] value.t = "str" -> FALSE
      [] OTHER -> FALSE

\* Properties::get: the value stored under the key, none when there is none
propsGet(ft, k) == ft.props[k]

\* Properties::contains
propsContains(ft, k) == ft.props[k].t # "none"

\* StyleContext::getGlobal
getGlobal(ft, g) == ft.globals[g]

\* StyleContext::evalFilter
evalFilter(ft, id) == ft.functions[id]

\* the value a leaf is tested against: the global when one is set, the
\* record's property otherwise
resolved(f, ft) ==
    IF f.global = "undefined" THEN propsGet(ft, f.key) ELSE getGlobal(ft, f.global)

RECURSIVE eval(_, _)

\* faulty variant: the loop returns whatever its first operand evaluates to
evalAnyFirstOnly(ops, ft) ==
    IF ops = <<>> THEN FALSE ELSE eval(Head(ops), ft)

\* matcher::operator()(OperatorAny): the loop over the operands left
RECURSIVE evalAny(_, _)
evalAny(ops, ft) ==
    IF ops = <<>> THEN FALSE
    ELSE IF eval(Head(ops), ft) THEN TRUE
    ELSE evalAny(Tail(ops), ft)

\* faulty variant: an OperatorAll without operands matches nothing
RECURSIVE evalAllEmptyFalse(_, _)
evalAllEmptyFalse(ops, ft) ==
    IF ops = <<>> THEN FALSE
    ELSE IF ~eval(Head(ops), ft) THEN FALSE
    ELSE Len(ops) = 1 \/ evalAllEmptyFalse(Tail(ops), ft)

\* matcher::operator()(OperatorAll)
RECURSIVE evalAll(_, _)
evalAll(ops, ft) ==
    IF ops = <<>> THEN TRUE
    ELSE IF ~eval(Head(ops), ft) THEN FALSE
    ELSE evalAll(Tail(ops), ft)

\* matcher::operator()(OperatorNone)
RECURSIVE evalNone(_, _)
evalNone(ops, ft) ==
    IF ops = <<>> THEN TRUE
    ELSE IF eval(Head(ops), ft) THEN FALSE
    ELSE evalNone(Tail(ops), ft)

\* Filter::eval with the matcher's dispatch on the variant
eval(f, ft) ==
    CASE f.type = "any" -> evalAny(f.operands, ft)
      [] f.type = "all" -> evalAll(f.operands, ft)
      [] f.type = "noneOf" -> evalNone(f.operands, ft)
      [] f.type = "existence" -> f.exists = propsContains(ft, f.key)
      [] f.type = "equalitySet" -> match_equal_set(f, resolved(f, ft))
      [] f.type = "equality" -> match_equal(f, resolved(f, ft))
      [] f.type = "range" -> match_range(f, resolved(f, ft))
      [] f.type = "function" -> evalFilter(ft, f.id)
      [] OTHER -> TRUE

(* --------------------------- records, contexts ------------------------- *)

Globals == {"zoom", "geometry"}
FunctionIds == {1}

MkFeat(z, ge, gz, fn) ==
    [props |-> [k \in Keys |-> IF k = Zoom THEN z ELSE ge],
     globals |-> [g \in Globals |-> IF g = "zoom" THEN gz ELSE Str("point")],
     functions |-> [i \in FunctionIds |-> fn]]

\* the records and contexts the sorted siblings are matched against
MatchFeats ==
    {MkFeat(z, Str("a"), Num(0), fn) : z \in {NoneValue, Num(1)}, fn \in BOOLEAN}

\* the records and contexts single filters are evaluated against
Feats ==
    {MkFeat(z, ge, gz, fn) :
        z \in {NoneValue, Num(-1), Num(0), Num(3), Num(4), Str("a")},
        ge \in {NoneValue, Str("a")},
        gz \in {Num(0), Num(4)},
        fn \in BOOLEAN}

(* ------------------------------- inputs -------------------------------- *)

RangeFrom(k, h) == MkRange(k, Fin(h), PInf, "undefined")
GeomIsA == MkEquality(Geom, Str("a"), "undefined")

\* the filters sibling sequences are made of
Siblings ==
    {RangeFrom(Zoom, 0), GeomIsA, MkFunction(1), NoFilter,
     MkAny(<<>>),
     MkAll(<<RangeFrom(Zoom, 0)>>), MkAll(<<RangeFrom(Zoom, 1)>>),
     MkAll(<<RangeFrom(Zoom, 4)>>), MkNone(<<RangeFrom(Geom, 0)>>),
     MkAny(<<RangeFrom(Zoom, 0), GeomIsA>>),
     MkAll(<<MkExistence(Zoom, TRUE)>>)}

\* the leaves single evaluations and cost estimates are made of
Leaves ==
    {MkRange(Zoom, Fin(0), Fin(4), "undefined"),
     MkRange(Zoom, Fin(4), Fin(0), "undefined"),
     MkRange(Zoom, NInf, Fin(0), "undefined"),
     RangeFrom(Zoom, 0),
     MkRange(Zoom, Fin(0), Fin(4), "zoom"),
     MkRange(Geom, Fin(0), Fin(4), "geometry"),
     MkExistence(Zoom, TRUE), MkExistence(Geom, FALSE),
     GeomIsA, MkEquality(Zoom, Num(3), "undefined"),
     MkEquality(Zoom, Num(4), "zoom"),
     MkEqualitySet(Zoom, <<Num(0), Str("a")>>, "undefined"),
     MkEqualitySet(Zoom, <<Num(4)>>, "zoom"),
     MkEqualitySet(Geom, <<>>, "undefined"),
     MkFunction(1), NoFilter}

\* the operands of the operators that are evaluated
Operands ==
    {MkRange(Zoom, Fin(0), Fin(4), "undefined"), GeomIsA, MkFunction(1),
     NoFilter, MkNone(<<MkExistence(Zoom, TRUE)>>)}

Targets ==
    Leaves \cup {MkOperator(kind, ops) :
                    kind \in OperatorTypes, ops \in SeqUpTo(Operands, MaxOperands)}

(* ------------------------------ the calls ------------------------------ *)

Idle ==
    /\ sorted = <<>>
    /\ assertReached = FALSE
    /\ oobRead = FALSE
    /\ matchBefore = FALSE
    /\ matchAfter = FALSE
    /\ result = FALSE
    /\ cost = 0

\* a builder holds a sequence of sibling filters
Init ==
    /\ filters \in SeqUpTo(Siblings, MaxLen)
    /\ target = NoFilter
    /\ feat = MkFeat(NoneValue, NoneValue, Num(0), FALSE)
    /\ pc = "built"
    /\ Idle

\* a filter is about to be evaluated, or its cost estimated
InitEval ==
    /\ filters = <<>>
    /\ target \in Targets
    /\ feat \in Feats
    /\ pc = "ready"
    /\ Idle

\* Filter::sort(filters). A build without NDEBUG aborts in assert(false); a
\* read of operand [0] of an empty vector traps or yields garbage.
SortCall ==
    /\ pc = "built"
    /\ \E impl \in Implementations, g \in Garbage, ndebug \in BOOLEAN, trap \in BOOLEAN :
          LET r == StdSort(impl, filters, g)
          IN /\ assertReached' = r.asrt
             /\ oobRead' = r.oob
             /\ IF r.asrt /\ ~ndebug THEN pc' = "aborted" /\ sorted' = <<>>
                ELSE IF r.oob /\ trap THEN pc' = "crashed" /\ sorted' = <<>>
                ELSE pc' = "sorted" /\ sorted' = r.s
    /\ UNCHANGED <<filters, matchBefore, matchAfter, target, feat, result, cost>>

\* the siblings as given and as sorted, under one operator, evaluated
\* against one record and context
MatchCall(kind, ft) ==
    /\ pc = "sorted"
    /\ target' = MkOperator(kind, sorted)
    /\ feat' = ft
    /\ matchBefore' = eval(MkOperator(kind, filters), ft)
    /\ matchAfter' = eval(MkOperator(kind, sorted), ft)
    /\ pc' = "matched"
    /\ UNCHANGED <<filters, sorted, assertReached, oobRead, result, cost>>

\* target.eval(feat, ctx)
EvalCall ==
    /\ pc = "ready"
    /\ result' = eval(target, feat)
    /\ pc' = "evaluated"
    /\ UNCHANGED <<filters, sorted, assertReached, oobRead, matchBefore,
                   matchAfter, target, feat, cost>>

\* target.filterCost()
CostCall ==
    /\ pc = "ready"
    /\ cost' = filterCost(target)
    /\ assertReached' = assertInCost(target)
    /\ pc' = "costed"
    /\ UNCHANGED <<filters, sorted, oobRead, matchBefore, matchAfter, target,
                   feat, result>>

Next ==
    \/ SortCall
    \/ \E kind \in OperatorTypes, ft \in MatchFeats : MatchCall(kind, ft)

NextEval ==
    \/ EvalCall
    \/ CostCall

Spec == Init /\ [][Next]_vars

SpecEval == InitEval /\ [][NextEval]_vars

(* ------------------------------ the claims ----------------------------- *)

Returned == pc \in {"sorted", "matched"}

\* C1: evaluating an OperatorAny gives true iff some operand evaluates true
\* (none: false), an OperatorAll iff every operand does (none: true), an
\* OperatorNone iff no operand does (none: true); a filter holding no variant
\* evaluates true.
C1_OperatorSemantics ==
    pc = "evaluated" =>
        LET ops == target.operands
            holds(i) == eval(ops[i], feat)
        IN /\ target.type = "any" => (result <=> \E i \in DOMAIN ops : holds(i))
           /\ target.type = "all" => (result <=> \A i \in DOMAIN ops : holds(i))
           /\ target.type = "noneOf" => (result <=> ~\E i \in DOMAIN ops : holds(i))
           /\ target.type \in OperatorTypes /\ ops = <<>> =>
                 (result <=> target.type # "any")
           /\ target.type = "none" => result

\* an OperatorAll whose first operand matches and whose second does not
C1_Witness ==
    /\ pc = "evaluated"
    /\ target.type = "all"
    /\ Len(target.operands) >= 2
    /\ eval(target.operands[1], feat)
    /\ ~eval(target.operands[2], feat)
    /\ result = FALSE

\* C2: the sequence Filter::sort returns has non-decreasing filterCost, and a
\* Function filter comes after every sibling of lower cost.
C2_CostNonDecreasing ==
    Returned =>
        \A i, j \in DOMAIN sorted :
            /\ i < j => filterCost(sorted[i]) <= filterCost(sorted[j])
            /\ sorted[i].type = "function" /\ filterCost(sorted[j]) < 1000 => j < i

\* a Function filter given first and returned last
C2_Witness ==
    /\ pc = "sorted"
    /\ filters = <<MkFunction(1), MkAll(<<RangeFrom(Zoom, 0)>>), GeomIsA>>
    /\ sorted = <<GeomIsA, MkAll(<<RangeFrom(Zoom, 0)>>), MkFunction(1)>>

\* C3: of two siblings of equal filterCost, one of them at least an operator,
\* with different operand counts, Filter::sort returns the one with fewer
\* operands first.
C3_FewerOperandsFirst ==
    /\ pc = "sorted"
    /\ Len(filters) = 2
    /\ isOperator(filters[1]) \/ isOperator(filters[2])
    /\ filterCost(filters[1]) = filterCost(filters[2])
    /\ Len(operands(filters[1])) # Len(operands(filters[2]))
    => Len(operands(sorted[1])) < Len(operands(sorted[2]))

FirstIsOpenRange(f) ==
    /\ isOperator(f)
    /\ Len(operands(f)) >= 1
    /\ operands(f)[1].type = "range"
    /\ operands(f)[1].max = PInf

\* C4: of two operator siblings of equal filterCost and operand count whose
\* first operands are Ranges on one key with infinite max and different min,
\* Filter::sort returns the one with the larger min first.
C4_LargerMinFirst ==
    /\ pc = "sorted"
    /\ Len(filters) = 2
    /\ FirstIsOpenRange(filters[1]) /\ FirstIsOpenRange(filters[2])
    /\ filterCost(filters[1]) = filterCost(filters[2])
    /\ Len(operands(filters[1])) = Len(operands(filters[2]))
    /\ key(operands(filters[1])[1]) = key(operands(filters[2])[1])
    /\ operands(filters[1])[1].min # operands(filters[2])[1].min
    => DLt(operands(sorted[2])[1].min, operands(sorted[1])[1].min)

\* C5: of two non-operator siblings of equal filterCost and different keys,
\* Filter::sort returns the one with the lexicographically greater key first.
C5_KeyDescending ==
    Returned =>
        \A i, j \in DOMAIN sorted :
            /\ i < j
            /\ ~isOperator(sorted[i]) /\ ~isOperator(sorted[j])
            /\ filterCost(sorted[i]) = filterCost(sorted[j])
            /\ key(sorted[i]) # key(sorted[j])
            => StrGreater(key(sorted[i]), key(sorted[j]))

\* the "geom" leaf given before the "zoom" leaf and returned after it
C5_Witness ==
    /\ pc = "sorted"
    /\ filters = <<GeomIsA, RangeFrom(Zoom, 0)>>
    /\ sorted = <<RangeFrom(Zoom, 0), GeomIsA>>

\* C6: a Range filter evaluates true iff the resolved value (the global when
\* one is set, the record's property otherwise) is a number v with
\* min <= v < max; a string, an absent key and a range with min > max never
\* match.
C6_RangeSemantics ==
    pc = "evaluated" /\ target.type = "range" =>
        LET v == IF target.global = "undefined"
                 THEN feat.props[target.key]
                 ELSE feat.globals[target.global]
            lo == target.min
            hi == target.max
            within == /\ lo.k = "ninf" \/ (lo.k = "fin" /\ lo.h <= v.num.h)
                      /\ hi.k = "pinf" \/ (hi.k = "fin" /\ v.num.h < hi.h)
        IN /\ result <=> (v.t = "num" /\ within)
           /\ v.t \in {"str", "none"} => ~result
           /\ lo.k = "fin" /\ hi.k = "fin" /\ lo.h > hi.h => ~result

\* a number equal to max is rejected
C6_Witness ==
    /\ pc = "evaluated"
    /\ target = MkRange(Zoom, Fin(0), Fin(4), "undefined")
    /\ feat.props[Zoom] = Num(4)
    /\ result = FALSE

\* C7: filterCost is 100 plus the sum of the operands' costs for an operator,
\* 20 for Existence, 1000 for Function, and for Equality, EqualitySet and
\* Range 1 with a global and 10 without; a leaf with a global costs less than
\* the same leaf without, and an operator costs at least 100.
C7_CostTable ==
    pc = "costed" /\ ~assertReached =>
        /\ target.type \in OperatorTypes =>
              cost = 100 + SumCost(target.operands) /\ cost >= 100
        /\ target.type = "existence" => cost = 20
        /\ target.type = "function" => cost = 1000
        /\ target.type \in {"equality", "equalitySet", "range"} =>
              /\ cost = IF target.global = "undefined" THEN 10 ELSE 1
              /\ target.global # "undefined" =>
                    cost < filterCost([target EXCEPT !.global = "undefined"])

\* a Range on a global costs 1
C7_Witness ==
    /\ pc = "costed"
    /\ target = MkRange(Zoom, Fin(0), Fin(4), "zoom")
    /\ cost = 1

Count(s, f) == Cardinality({i \in DOMAIN s : s[i] = f})

\* C8: the sequence Filter::sort returns is a permutation of the one given,
\* and under each operator kind it evaluates as the one given does.
C8_SortPreservesMatch ==
    /\ Returned =>
          /\ Len(sorted) = Len(filters)
          /\ \A f \in Siblings : Count(sorted, f) = Count(filters, f)
    /\ pc = "matched" => matchAfter = matchBefore

\* three siblings reordered by the sort and matched under an OperatorAll
C8_Witness ==
    /\ pc = "matched"
    /\ Len(filters) = 3
    /\ sorted # filters
    /\ target.type = "all"
    /\ matchBefore = TRUE
    /\ matchAfter = TRUE

\* C9: the comparator is a strict weak ordering of the filters it is given:
\* irreflexive, asymmetric, transitive, and with a transitive "neither before
\* the other". (Stated for the sorts in which every comparison stayed within
\* defined behaviour.)
C9_StrictWeakOrdering ==
    pc = "sorted" /\ ~oobRead /\ ~assertReached =>
        LET F == {filters[i] : i \in DOMAIN filters}
            lt(a, b) == comparator(a, b, 0)
            eq(a, b) == ~lt(a, b) /\ ~lt(b, a)
        IN \A a, b, c \in F :
              /\ ~lt(a, a)
              /\ lt(a, b) => ~lt(b, a)
              /\ lt(a, b) /\ lt(b, c) => lt(a, c)
              /\ eq(a, b) /\ eq(b, c) => eq(a, c)

\* C10: Filter::sort completes normally: it neither runs into assert(false)
\* in filterCost nor reads operand [0] of an empty operand sequence.
C10_SortCompletes ==
    /\ pc \notin {"aborted", "crashed"}
    /\ ~assertReached
    /\ ~oobRead

====
